---- MODULE Spec2Model ----
(***************************************************************************)
(* Reminders synchronisation of taskr: the reconciliation engine           *)
(* (taskr/sync/reminders/manager.py), the record fetch                     *)
(* (taskr/sync/reminders/osa.py), the entity mapper                        *)
(* (taskr/sync/reminders/core.py) and the task-store queries they use      *)
(* (taskr/interface/task.py).                                              *)
(*                                                                         *)
(* Python values whose type decides what the code does are tagged records  *)
(* [t, s, n]: a str carries its text in s, an int or bool its number in n. *)
(* Names, ids and bodies are plain strings, "" standing for None as well   *)
(* as for the empty string (the code only ever tests them for truth).      *)
(***************************************************************************)
EXTENDS Integers, Sequences, FiniteSets, TLC

(* ------------------------------ bounds --------------------------------- *)

\* most records the task store and the external reminder store hold together
MaxRecords == 3

\* most values in one output handed to the bulk parser
MaxFields == 4

(* --------------------------- Python values ----------------------------- *)

PyStr(s) == [t |-> "str", s |-> s, n |-> 0]

PyInt(n) == [t |-> "int", s |-> "", n |-> n]

PyBool(b) == [t |-> "bool", s |-> "", n |-> IF b THEN 1 ELSE 0]

PyNone == [t |-> "none", s |-> "", n |-> 0]

\* Python truth value of a tagged value: a non-empty str, a non-zero number,
\* any date or datetime; None is false
Truthy(v) ==
  CASE v.t = "str" -> v.s # ""
    [] v.t = "int" -> v.n # 0
    [] v.t = "bool" -> v.n # 0
    [] v.t = "date" -> TRUE
    [] OTHER -> FALSE

(* ------------------------------- state --------------------------------- *)

VARIABLES
  taskStore,     \* the task store: sequence of task records, in export order
  reminderStore, \* the external reminder store: sequence of reminder rows
  last           \* what the last sync call did and returned, if nothing intervened
                 \* (under the specifications of one component: its last call)

vars == <<taskStore, reminderStore, last>>

\* the properties read for every reminder (osa.py DEFAULT.PROPERTIES)
PROPERTIES == <<"name", "body", "due date", "priority", "completed", "id", "flagged">>

Range(s) == {s[i] : i \in 1..Len(s)}

(* ------------------------------ str helpers ---------------------------- *)

CharAt(s, i) == SubSeq(s, i, i)

IsSpace(c) == c \in {" ", "\n", "\t"}

RECURSIVE lstrip(_)
lstrip(s) == IF Len(s) > 0 /\ IsSpace(CharAt(s, 1)) THEN lstrip(SubSeq(s, 2, Len(s))) ELSE s

RECURSIVE rstrip(_)
rstrip(s) ==
  IF Len(s) > 0 /\ IsSpace(CharAt(s, Len(s))) THEN rstrip(SubSeq(s, 1, Len(s) - 1)) ELSE s

\* str.strip()
strip(s) == rstrip(lstrip(s))

\* "".join(key.split())
RECURSIVE RemoveSpaces(_)
RemoveSpaces(s) ==
  IF Len(s) = 0 THEN ""
  ELSE (IF IsSpace(CharAt(s, 1)) THEN "" ELSE CharAt(s, 1)) \o RemoveSpaces(SubSeq(s, 2, Len(s)))

\* the characters of a str, as the for loop over it yields them
Chars(s) == [i \in 1..Len(s) |-> CharAt(s, i)]

\* sep.join(parts)
RECURSIVE Join(_, _)
Join(parts, sep) ==
  IF parts = <<>> THEN ""
  ELSE IF Len(parts) = 1 THEN parts[1]
  ELSE parts[1] \o sep \o Join(Tail(parts), sep)

(* ------------------- date literals (core.py OsaDate) ------------------- *)

Letters ==
  {"a", "b", "c", "d", "e", "f", "g", "h", "i", "j", "k", "l", "m", "n", "o", "p", "q",
   "r", "s", "t", "u", "v", "w", "x", "y", "z", "A", "B", "C", "D", "E", "F", "G", "H",
   "I", "J", "K", "L", "M", "N", "O", "P", "Q", "R", "S", "T", "U", "V", "W", "X", "Y", "Z"}

Digits == {"0", "1", "2", "3", "4", "5", "6", "7", "8", "9"}

\* the positions a run of characters of class cls can end before, when it
\* starts at position i and has at least least and at most most characters
RECURSIVE RunEnds(_, _, _, _, _)
RunEnds(s, i, cls, least, most) ==
  (IF least <= 0 THEN {i} ELSE {})
  \cup (IF most > 0 /\ i <= Len(s) /\ CharAt(s, i) \in cls
        THEN RunEnds(s, i + 1, cls, least - 1, most - 1) ELSE {})

\* the positions after the literal text, when it stands at a position of from
LitEnds(s, from, text) ==
  {i + Len(text) : i \in {j \in from : /\ j + Len(text) - 1 <= Len(s)
                                          /\ SubSeq(s, j, j + Len(text) - 1) = text}}

\* the positions after a run of a class, started at any position of from
ClassEnds(s, from, cls, least, most) ==
  UNION {RunEnds(s, i, cls, least, most) : i \in from}

\* OsaDate._pattern.fullmatch(value): [weekday,] month day, year
\* [at hour:minute[:second] [AM|PM]]
PatternFullMatch(value) ==
  LET n == Len(value)
      white == {" ", "\t", "\n"}
      weekday == ClassEnds(value, LitEnds(value, ClassEnds(value, {1}, Letters, 1, n), ","),
                           white, 0, n)
      month == ClassEnds(value, {1} \cup weekday, Letters, 1, n)
      day == ClassEnds(value, ClassEnds(value, month, white, 1, n), Digits, 1, 2)
      year == ClassEnds(value, ClassEnds(value, LitEnds(value, day, ","), white, 1, n),
                        Digits, 4, 4)
      at == ClassEnds(value, LitEnds(value, ClassEnds(value, year, white, 1, n), "at"),
                      white, 1, n)
      hour == ClassEnds(value, at, Digits, 1, 2)
      minute == ClassEnds(value, LitEnds(value, hour, ":"), Digits, 2, 2)
      second == minute \cup ClassEnds(value, LitEnds(value, minute, ":"), Digits, 2, 2)
      gap == ClassEnds(value, second, white, 0, n)
      ampm == gap \cup ClassEnds(value, ClassEnds(value, gap, {"A", "P", "a", "p"}, 1, 1),
                                 {"M", "m"}, 1, 1)
  IN (n + 1) \in (year \cup ampm)

\* isosadate(value) for a str
isosadate(value) == PatternFullMatch(value)

(* ---------------------- executor (osa.py execute) ---------------------- *)

\* what osascript.execute returns: None, True, a raw str, or a decoded list/dict
\* (elems: the elements of a list, or the keys of a dict, as iteration yields them)
ExNone == [k |-> "none", s |-> "", elems |-> <<>>]

ExTrue == [k |-> "true", s |-> "", elems |-> <<>>]

ExStr(s) == [k |-> "str", s |-> s, elems |-> <<>>]

ExJson(elems) == [k |-> "json", s |-> "", elems |-> elems]

\* json.loads on the outputs of the model: a list of one number, an empty
\* object, an object of one key; any other text is a decode error
JsonLoads(output) ==
  CASE output = "[1]" -> [ok |-> TRUE, v |-> ExJson(<<PyInt(1)>>)]
    [] output = "{}" -> [ok |-> TRUE, v |-> ExJson(<<>>)]
    [] output = "{\"a\": 1}" -> [ok |-> TRUE, v |-> ExJson(<<PyStr("a")>>)]
    [] OTHER -> [ok |-> FALSE, v |-> ExNone]

\* osascript.execute on the finished process (returncode, stdout, stderr)
execute(returncode, stdout, stderr) ==
  IF returncode # 0 THEN ExNone
  ELSE LET output == strip(stdout) IN
    IF output # ""
    THEN IF CharAt(output, 1) \in {"{", "["}
         THEN (IF JsonLoads(output).ok THEN JsonLoads(output).v ELSE ExStr(output))
         ELSE ExStr(output)
    ELSE ExTrue

\* Python truth of an executor result
ExTruthy(r) ==
  CASE r.k = "none" -> FALSE
    [] r.k = "true" -> TRUE
    [] r.k = "str" -> r.s # ""
    [] OTHER -> r.elems # <<>>

(* ------------- bulk parser (osa.py parse.reminderproperties) ----------- *)

\* the body of the scan loop, on one character (or list element)
ScanStep(st, char) ==
  IF char = "," /\ ~st.indate
  THEN [st EXCEPT !.values = Append(@, strip(st.currentvalue)), !.currentvalue = ""]
  ELSE IF char = "d" /\ strip(st.currentvalue) = "date"
  THEN [st EXCEPT !.indate = TRUE]
  ELSE IF st.indate /\ char = "M"
  THEN [st EXCEPT !.values = Append(@, strip(st.currentvalue \o char)),
                  !.currentvalue = "", !.indate = FALSE]
  ELSE [st EXCEPT !.currentvalue = @ \o char]

\* the loop state after the characters lo..hi, taken in order from state st
RECURSIVE ScanRange(_, _, _, _)
ScanRange(chars, lo, hi, st) ==
  IF lo > hi THEN st
  ELSE IF lo = hi THEN ScanStep(st, chars[lo])
  ELSE LET mid == (lo + hi) \div 2
           left == ScanRange(chars, lo, mid, st)
       IN IF left.indate \in BOOLEAN THEN ScanRange(chars, mid + 1, hi, left) ELSE left

\* the scan of reminderproperties: the values it splits the output into
Scan(chars) ==
  LET st == ScanRange(chars, 1, Len(chars),
                      [values |-> <<>>, currentvalue |-> "", indate |-> FALSE])
  IN IF strip(st.currentvalue) # "" THEN Append(st.values, strip(st.currentvalue))
     ELSE st.values

\* the dict built from one group of len(properties) values
PropertiesDict(chunk, properties) ==
  [p \in Range(properties) |->
     chunk[CHOOSE i \in 1..Len(properties) :
             properties[i] = p /\ \A j \in (i + 1)..Len(properties) : properties[j] # p]]

\* a reconstruction that emits nothing unless the values divide evenly
RecordsEvenOnly(values, properties) ==
  IF Len(values) % Len(properties) # 0 THEN <<>>
  ELSE [k \in 1..(Len(values) \div Len(properties)) |->
          PropertiesDict(SubSeq(values, (k - 1) * Len(properties) + 1, k * Len(properties)),
                         properties)]

\* the records built from the scanned values
Records(values, properties) ==
  IF Len(values) = Len(properties)
  THEN <<PropertiesDict(values, properties)>>
  ELSE LET P == Len(properties) IN
       [k \in 1..(Len(values) \div P) |->
          PropertiesDict(SubSeq(values, (k - 1) * P + 1, k * P), properties)]

\* parse.reminderproperties: raised is set when the call ends in an exception
reminderproperties(output, properties) ==
  CASE output.k = "none" -> [raised |-> FALSE, result |-> <<>>]
    [] output.k = "true" -> [raised |-> TRUE, result |-> <<>>]
    [] output.k = "str" ->
         IF output.s = "" \/ output.s = "True"
         THEN [raised |-> FALSE, result |-> <<>>]
         ELSE [raised |-> FALSE,
               result |-> Records(Scan(Chars(output.s)), properties)]
    [] OTHER ->
         IF output.elems = <<>>
         THEN [raised |-> FALSE, result |-> <<>>]
         ELSE IF \E i \in 1..Len(output.elems) : output.elems[i].t # "str"
         THEN [raised |-> TRUE, result |-> <<>>]
         ELSE [raised |-> FALSE,
               result |-> Records(Scan([i \in 1..Len(output.elems) |-> output.elems[i].s]),
                                  properties)]

(* ------------------- Reminder (core.py dataclass) ---------------------- *)

\* the dataclass fields a properties dict can set
ReminderFields == {"name", "body", "listname", "duedate", "priority", "completed",
                   "completiondate", "creationdate", "modificationdate", "id",
                   "remindmedate", "flagged"}

\* Reminder(name=...) with the dataclass defaults for everything else
Reminder(name) ==
  [name |-> name, body |-> "", listname |-> "", duedate |-> PyNone, priority |-> PyInt(0),
   completed |-> PyBool(FALSE), id |-> "", flagged |-> PyBool(FALSE)]

\* the dataclass field a property key sets ("" when it sets none)
FieldOf(key) ==
  IF key \in ReminderFields THEN key
  ELSE IF RemoveSpaces(key) \in ReminderFields THEN RemoveSpaces(key)
  ELSE ""

\* Reminder.FromPropertiesDict: raised when a value is a date literal
\* (OsaDate.todatetime raises NotImplementedError) or no key sets name
FromPropertiesDict(properties) ==
  LET keys == {k \in DOMAIN properties : FieldOf(k) # ""}
      has(f) == \E k \in keys : FieldOf(k) = f
      val(f) == properties[CHOOSE k \in keys : FieldOf(k) = f]
      str(f, default) == IF has(f) THEN val(f) ELSE default
      py(f, default) == IF has(f) THEN PyStr(val(f)) ELSE default
  IN IF (\E k \in keys : isosadate(properties[k])) \/ ~has("name")
     THEN [raised |-> TRUE, reminder |-> Reminder("")]
     ELSE [raised |-> FALSE,
           reminder |-> [name |-> val("name"), body |-> str("body", ""),
                         listname |-> str("listname", ""),
                         duedate |-> py("duedate", PyNone),
                         priority |-> py("priority", PyInt(0)),
                         completed |-> py("completed", PyBool(FALSE)),
                         id |-> str("id", ""),
                         flagged |-> py("flagged", PyBool(FALSE))]]

\* the Reminder objects getreminders builds from parsed property dicts
remindersOf(parsed) ==
  LET made == [i \in 1..Len(parsed) |-> FromPropertiesDict(parsed[i])] IN
  IF \E i \in 1..Len(made) : made[i].raised
  THEN [raised |-> TRUE, reminders |-> <<>>]
  ELSE [raised |-> FALSE, reminders |-> [i \in 1..Len(made) |-> made[i].reminder]]

\* osascript.getreminders on the executor's result for the read command
getreminders(result, properties) ==
  IF ~ExTruthy(result) THEN [raised |-> FALSE, reminders |-> <<>>]
  ELSE LET parsed == reminderproperties(result, properties) IN
    IF parsed.raised THEN [raised |-> TRUE, reminders |-> <<>>]
    ELSE remindersOf(parsed.result)

(* ----------------------- Task (interface/task.py) ---------------------- *)

PyDate(iso) == [t |-> "date", s |-> iso, n |-> 0]

\* Task(...) with the dataclass defaults; id 0 stands for no id (None or 0);
\* rid is udas["reminder_id"], "" when the key is absent
Task(description) ==
  [id |-> 0, description |-> description, status |-> "pending", priority |-> "",
   project |-> "", tags |-> <<>>, due |-> "", annotations |-> <<>>, rid |-> ""]

(* --------------------- entity mapper (core.py) ------------------------- *)

\* a decoding whose medium bucket starts one higher
totaskMediumFromFive(r) ==
  LET prio == IF ~Truthy(r.priority) THEN ""
              ELSE IF r.priority.n >= 7 THEN "H"
              ELSE IF r.priority.n >= 5 THEN "M"
              ELSE IF r.priority.n > 0 THEN "L" ELSE ""
      tags == IF Truthy(r.flagged) THEN <<"critical">> ELSE <<>>
  IN [raised |-> FALSE,
      task |-> [id |-> 0, description |-> r.name,
                status |-> IF Truthy(r.completed) THEN "completed" ELSE "pending",
                priority |-> prio, project |-> "", tags |-> tags, due |-> "",
                annotations |-> IF r.body # "" THEN <<r.body>> ELSE <<>>,
                rid |-> r.id]]

\* Reminder.totask: raised when priority or duedate is a non-empty str
\* ('>=' between str and int, str has no strftime)
totask(r) ==
  LET prio == IF ~Truthy(r.priority) THEN ""
              ELSE IF r.priority.n >= 7 THEN "H"
              ELSE IF r.priority.n >= 4 THEN "M"
              ELSE IF r.priority.n > 0 THEN "L" ELSE ""
      hasproject == r.listname # "" /\ r.listname # "Reminders"
      tags == (IF hasproject THEN <<r.listname>> ELSE <<>>)
              \o (IF Truthy(r.flagged) THEN <<"critical">> ELSE <<>>)
  IN IF (Truthy(r.priority) /\ r.priority.t = "str")
        \/ (Truthy(r.duedate) /\ r.duedate.t # "date")
     THEN [raised |-> TRUE, task |-> Task("")]
     ELSE [raised |-> FALSE,
           task |-> [id |-> 0, description |-> r.name,
                     status |-> IF Truthy(r.completed) THEN "completed" ELSE "pending",
                     priority |-> prio,
                     project |-> IF hasproject THEN r.listname ELSE "",
                     tags |-> tags,
                     due |-> IF Truthy(r.duedate) THEN r.duedate.s ELSE "",
                     annotations |-> IF r.body # "" THEN <<r.body>> ELSE <<>>,
                     rid |-> r.id]]

IsDigits(s) == \A i \in 1..Len(s) : CharAt(s, i) \in {"0", "1", "2", "3", "4", "5", "6", "7", "8", "9"}

\* first index of character c in s, 0 when absent
RECURSIVE IndexOf(_, _, _)
IndexOf(s, c, i) ==
  IF i > Len(s) THEN 0 ELSE IF CharAt(s, i) = c THEN i ELSE IndexOf(s, c, i + 1)

\* datetime.strptime(s, "%Y%m%d") on 8 digits: the date, or None on ValueError
Strptime8(s) ==
  IF Len(s) = 8 /\ IsDigits(s)
     /\ SubSeq(s, 5, 6) \in {"01", "02", "03", "04", "05", "06", "07", "08", "09", "10", "11", "12"}
     /\ SubSeq(s, 7, 8) # "00" /\ CharAt(s, 7) \in {"0", "1", "2", "3"}
  THEN PyDate(SubSeq(s, 1, 4) \o "-" \o SubSeq(s, 5, 6) \o "-" \o SubSeq(s, 7, 8))
  ELSE PyNone

\* the due date FromTask parses out of the task's date text
ParseDue(due) ==
  IF due = "" THEN PyNone
  ELSE IF Len(due) = 8 /\ IsDigits(due) THEN Strptime8(due)
  ELSE IF Len(due) >= 10 /\ IndexOf(due, "T", 1) > 0
  THEN (IF IndexOf(due, "T", 1) = 9 THEN Strptime8(SubSeq(due, 1, 8)) ELSE PyNone)
  ELSE IF Len(due) >= 10
  THEN (IF CharAt(due, 5) = "-" /\ CharAt(due, 8) = "-"
        THEN Strptime8(SubSeq(due, 1, 4) \o SubSeq(due, 6, 7) \o SubSeq(due, 9, 10))
        ELSE PyNone)
  ELSE PyNone

\* an encoding that sends M to the bottom of its bucket
PriorityCodeBucketFloor(priority) ==
  CASE priority = "H" -> 9 [] priority = "M" -> 4 [] priority = "L" -> 1 [] OTHER -> 0

\* the reverse bucket table of FromTask
PriorityCode(priority) ==
  CASE priority = "H" -> 9 [] priority = "M" -> 5 [] priority = "L" -> 1 [] OTHER -> 0

\* Reminder.FromTask
FromTask(task) ==
  [name |-> task.description,
   body |-> IF task.annotations # <<>> THEN task.annotations[1] ELSE "",
   listname |-> task.project,
   duedate |-> ParseDue(task.due),
   priority |-> PyInt(PriorityCode(task.priority)),
   completed |-> PyBool(task.status = "completed"),
   id |-> task.rid,
   flagged |-> PyBool("critical" \in Range(task.tags))]

\* Reminder.osaproperties: the payload, in order, as <<property, value>> pairs
osaproperties(r) ==
  <<<<"name", PyStr(r.name)>>>>
  \o (IF r.body # "" THEN <<<<"body", PyStr(r.body)>>>> ELSE <<>>)
  \o (IF Truthy(r.duedate) THEN <<<<"due date", r.duedate>>>> ELSE <<>>)
  \o (IF Truthy(r.priority) THEN <<<<"priority", r.priority>>>> ELSE <<>>)
  \o (IF Truthy(r.flagged) THEN <<<<"flagged", r.flagged>>>> ELSE <<>>)

(* ------------------ task store (interface/task.py) --------------------- *)

\* the filters export can pass on: none, or one priority filter
FilterArgs == {"", "priority:H"}

\* the task store's own evaluation of the extra filter arguments
FilterMatch(task, filterargs) == filterargs = "" \/ task.priority = "H"

\* tasklist(filterargs, includeall, includedeleted) on the store's answer
tasklist(store, filterargs, includeall, includedeleted, returncode) ==
  IF returncode # 0 THEN <<>>
  ELSE SelectSeq(store, LAMBDA task :
         /\ includeall \/ task.status = "pending"
         /\ FilterMatch(task, filterargs)
         /\ includedeleted \/ task.status # "deleted")

\* the id the task store gives the next task it creates
NewTaskId(store) == Len(store) + 1

\* a task store that does not keep the udas of the tasks it creates
addtaskWithoutUdas(store, task) ==
  Append(store, [task EXCEPT !.id = NewTaskId(store), !.status = "pending", !.rid = ""])

\* addtask(description, project, priority, tags, due, udas), then the
\* annotations _createtask adds with modifytask(new.id, annotations=...)
addtask(store, task) ==
  Append(store, [task EXCEPT !.id = NewTaskId(store), !.status = "pending"])

\* modifytask(id, description, project, priority, tagsadd, due, annotations, udas):
\* every truthy argument is written, every annotation is added
modifytask(store, id, task) ==
  [i \in 1..Len(store) |->
     IF store[i].id # id THEN store[i]
     ELSE [store[i] EXCEPT
             !.description = IF task.description # "" THEN task.description ELSE @,
             !.project = IF task.project # "" THEN task.project ELSE @,
             !.priority = IF task.priority # "" THEN task.priority ELSE @,
             !.tags = @ \o SelectSeq(task.tags, LAMBDA g : g \notin Range(store[i].tags)),
             !.due = IF task.due # "" THEN task.due ELSE @,
             !.annotations = @ \o task.annotations,
             !.rid = IF task.rid # "" THEN task.rid ELSE @]]

(* ------------------ the external host (Reminders) ---------------------- *)

\* how the host prints a value it stores
HostText(v) ==
  CASE v.t = "str" -> v.s
    [] v.t = "int" -> ToString(v.n)
    [] v.t = "bool" -> (IF v.n # 0 THEN "true" ELSE "false")
    [] v.t = "date" -> "date " \o v.s
    [] OTHER -> "missing value"

\* the id the host gives the next reminder it creates
NewReminderId(rows) ==
  "r" \o ToString(1 + Cardinality({i \in 1..Len(rows) : rows[i]["id"] # ""}))

\* the host's answer to the read of PROPERTIES of every reminder: all values
\* of all rows in one comma-separated stream
RECURSIVE HostOutput(_)
HostOutput(rows) ==
  IF rows = <<>> THEN ""
  ELSE Join([i \in 1..Len(PROPERTIES) |-> rows[1][PROPERTIES[i]]], ", ")
       \o (IF Len(rows) > 1 THEN ", " \o HostOutput(Tail(rows)) ELSE "")

\* the row "make new reminder ... with properties {...}" creates
HostCreate(rows, properties) ==
  LET given(p) == \E i \in 1..Len(properties) : properties[i][1] = p
      text(p, default) ==
        IF given(p)
        THEN HostText(properties[CHOOSE i \in 1..Len(properties) : properties[i][1] = p][2])
        ELSE default
  IN [p \in Range(PROPERTIES) |->
        CASE p = "completed" -> "false"
          [] p = "id" -> NewReminderId(rows)
          [] p = "priority" -> text(p, "0")
          [] p = "flagged" -> text(p, "false")
          [] OTHER -> text(p, "missing value")]

\* the rows after "set <property> of reminder id <id> to <value>"
HostSet(rows, id, property, value) ==
  [i \in 1..Len(rows) |->
     IF rows[i]["id"] = id THEN [rows[i] EXCEPT ![property] = HostText(value)] ELSE rows[i]]

(* -------------------- sync manager (manager.py) ------------------------ *)

\* first index at which sub occurs in s at or after i, 0 when it does not
Find(s, sub, i) ==
  LET hits == {j \in i..(Len(s) - Len(sub) + 1) : SubSeq(s, j, j + Len(sub) - 1) = sub}
  IN IF hits = {} THEN 0 ELSE CHOOSE j \in hits : \A k \in hits : j <= k

\* parse.reminderid: the text after "reminder id " ("" for None; an output
\* holding "reminder id" without the space ends in IndexError, which
\* _createreminder turns into None)
reminderid(output) ==
  IF output.k = "str" /\ Find(output.s, "reminder id", 1) > 0
  THEN LET at == Find(output.s, "reminder id ", 1)
           from == at + Len("reminder id ")
           next == Find(output.s, "reminder id ", from)
       IN IF at = 0 THEN ""
          ELSE strip(SubSeq(output.s, from, IF next = 0 THEN Len(output.s) ELSE next - 1))
  ELSE ""

\* what the executor returns for a side-effecting command the host ran (ok)
\* or refused; a create prints the new reminder's reference
CommandResult(ok, printed) ==
  IF ok THEN execute(0, printed, "") ELSE execute(1, "", "error")

\* _updatereminder: one set command per payload property, all answered ok or
\* all refused; [success, rows, commands]
updatereminder(rows, reminder, ok) ==
  IF reminder.id = ""
  THEN [success |-> FALSE, rows |-> rows, commands |-> <<>>]
  ELSE LET properties == osaproperties(reminder)
           RECURSIVE apply(_, _)
           apply(i, acc) ==
             IF i > Len(properties) THEN acc
             ELSE apply(i + 1, IF ExTruthy(CommandResult(ok, ""))
                               THEN HostSet(acc, reminder.id, properties[i][1], properties[i][2])
                               ELSE acc)
       IN [success |-> ExTruthy(CommandResult(ok, "")),
           rows |-> apply(1, rows),
           commands |-> [i \in 1..Len(properties) |->
                           [verb |-> "set", id |-> reminder.id, property |-> properties[i][1]]]]

\* _createreminder: one make command; [id, rows, commands], id "" for None
createreminder(rows, reminder, ok) ==
  LET row == HostCreate(rows, osaproperties(reminder))
      result == CommandResult(ok, "reminder id " \o row["id"])
  IN [id |-> reminderid(result),
      rows |-> IF ok THEN Append(rows, row) ELSE rows,
      commands |-> <<[verb |-> "make", id |-> "", property |-> ""]>>]

\* _updatetask: no call for a task without id; [success, store, calls]
updatetask(store, task, ok) ==
  IF task.id = 0
  THEN [success |-> FALSE, store |-> store, calls |-> <<>>]
  ELSE [success |-> ok,
        store |-> IF ok THEN modifytask(store, task.id, task) ELSE store,
        calls |-> <<[fn |-> "modify", id |-> task.id, rid |-> task.rid]>>]

\* _createtask: addtask, then modifytask for the annotations of the new task
createtask(store, task, ok) ==
  [success |-> ok,
   store |-> IF ok THEN addtask(store, task) ELSE store,
   calls |-> <<[fn |-> "add", id |-> 0, rid |-> task.rid]>>
             \o (IF ok /\ task.annotations # <<>>
                 THEN <<[fn |-> "modify", id |-> NewTaskId(store), rid |-> ""]>> ELSE <<>>)]

\* the record of a sync call that has not happened
\* (listing: the read was answered with the listing of a non-empty store;
\* tasksok: the task query succeeded; size: the records handed to the loop)
NoCall ==
  [op |-> "none", arg |-> "", raised |-> FALSE, ret |-> 0, created |-> 0, updated |-> 0,
   ids |-> {}, batch |-> <<>>, commands |-> <<>>, taskcalls |-> <<>>,
   listing |-> FALSE, tasksok |-> FALSE, size |-> 0]

\* an export that also wrote to the task store
exportsTaskCallsAndModify(filterargs) ==
  <<[fn |-> "tasklist", id |-> 0, rid |-> filterargs], [fn |-> "modify", id |-> 1, rid |-> ""]>>

\* the task-store calls of one export: the query alone
exportsTaskCalls(filterargs) == <<[fn |-> "tasklist", id |-> 0, rid |-> filterargs]>>

\* the ids of the reminders the fetch returned
ExtantIds(reminders) == {reminders[i].id : i \in 1..Len(reminders)} \ {""}

\* an export that takes the update path for every task that stores an id
ExistsStored(task, extantids) == task.rid # ""

\* whether export takes the update path for a task
Exists(task, extantids) == task.rid # "" /\ task.rid \in extantids

\* the for loop of _exports from task i on; outcome[i] is whether the host
\* carries out the commands issued for task i
RECURSIVE exportsLoop(_, _, _, _, _)
exportsLoop(tasks, i, extantids, outcome, acc) ==
  IF i > Len(tasks) THEN acc
  ELSE LET task == tasks[i] IN
    IF task.description = ""
    THEN exportsLoop(tasks, i + 1, extantids, outcome,
           [acc EXCEPT !.batch = Append(@, [task |-> task, path |-> "skip", ok |-> FALSE,
                                             newid |-> "", commands |-> <<>>])])
    ELSE LET reminder == FromTask(task) IN
      IF Exists(task, extantids)
      THEN LET u == updatereminder(acc.rows, reminder, outcome[i]) IN
        exportsLoop(tasks, i + 1, extantids, outcome,
          [acc EXCEPT !.rows = u.rows,
                      !.updated = @ + 1,
                      !.commands = @ \o u.commands,
                      !.batch = Append(@, [task |-> task, path |-> "update", ok |-> u.success,
                                            newid |-> "", commands |-> u.commands])])
      ELSE LET c == createreminder(acc.rows, reminder, outcome[i]) IN
        exportsLoop(tasks, i + 1, extantids, outcome,
          [acc EXCEPT !.rows = c.rows,
                      !.created = @ + (IF c.id # "" THEN 1 ELSE 0),
                      !.commands = @ \o c.commands,
                      !.batch = Append(@, [task |-> IF c.id # "" THEN [task EXCEPT !.rid = c.id]
                                                     ELSE task,
                                            path |-> "create", ok |-> c.id # "",
                                            newid |-> c.id, commands |-> c.commands])])

\* the process results the host can give the read command: an error exit,
\* its listing of the store, nothing at all, or a JSON-looking text
\* or a line whose third value the scan turns into a date literal
ReadAnswers ==
  {[returncode |-> 1, listing |-> FALSE, stdout |-> ""],
   [returncode |-> 0, listing |-> TRUE, stdout |-> ""],
   [returncode |-> 0, listing |-> FALSE, stdout |-> ""],
   [returncode |-> 0, listing |-> FALSE, stdout |-> "[1]"],
   [returncode |-> 0, listing |-> FALSE,
    stdout |-> "n, b, dated 12, 2024 at 6:00 PM, 5, false, id1, false"]}

\* osascript.getreminders under each process result that does not depend on
\* the store
AnswerFetch ==
  [answer \in ReadAnswers |->
     getreminders(execute(answer.returncode, answer.stdout, ""), PROPERTIES)]

\* osascript.getreminders(self.listname) under a process result. The listing
\* of a non-empty store parses back into its rows (ListingParsesToRows, kept
\* as an invariant), so the rows stand for the parsed listing here.
fetch(rows, answer) ==
  IF answer.listing /\ rows # <<>>
  THEN remindersOf(rows)
  ELSE AnswerFetch[answer]

\* a reverse map in which the first task with a stored id keeps it
ReverseMapFirst(tasks) ==
  [rid \in {tasks[i].rid : i \in 1..Len(tasks)} \ {""} |->
     tasks[CHOOSE i \in 1..Len(tasks) :
             tasks[i].rid = rid /\ \A j \in 1..(i - 1) : tasks[j].rid # rid].id]

\* the reverse map of _imports: a later task with the same stored id
\* overwrites an earlier one
ReverseMap(tasks) ==
  [rid \in {tasks[i].rid : i \in 1..Len(tasks)} \ {""} |->
     tasks[CHOOSE i \in 1..Len(tasks) :
             tasks[i].rid = rid /\ \A j \in (i + 1)..Len(tasks) : tasks[j].rid # rid].id]

\* a filter that keeps every reminder
CompletedFilterKeepAll(reminders, completed) == reminders

\* the completed filter of _imports
CompletedFilter(reminders, completed) ==
  IF completed THEN reminders ELSE SelectSeq(reminders, LAMBDA r : ~Truthy(r.completed))

\* the task list _imports builds its reverse map from
importsTasks(store, returncode) == tasklist(store, "", TRUE, FALSE, returncode)

\* the for loop of _imports from reminder i on; outcome[i] is whether the
\* task store carries out the call made for reminder i; an exception in
\* totask ends the loop (acc.raised)
RECURSIVE importsLoop(_, _, _, _, _)
importsLoop(reminders, i, extantids, outcome, acc) ==
  IF i > Len(reminders) THEN acc
  ELSE LET reminder == reminders[i] IN
    IF reminder.id = ""
    THEN importsLoop(reminders, i + 1, extantids, outcome,
           [acc EXCEPT !.batch = Append(@, [reminder |-> reminder, path |-> "skip",
                                             ok |-> FALSE, target |-> 0, calls |-> <<>>])])
    ELSE LET mapped == totask(reminder) IN
      IF mapped.raised
      THEN [acc EXCEPT !.raised = TRUE,
                       !.batch = Append(@, [reminder |-> reminder, path |-> "raise",
                                             ok |-> FALSE, target |-> 0, calls |-> <<>>])]
      ELSE IF reminder.id \in DOMAIN extantids
      THEN LET task == [mapped.task EXCEPT !.id = extantids[reminder.id]]
               u == updatetask(acc.store, task, outcome[i])
           IN importsLoop(reminders, i + 1, extantids, outcome,
                [acc EXCEPT !.store = u.store,
                            !.updated = @ + 1,
                            !.calls = @ \o u.calls,
                            !.batch = Append(@, [reminder |-> reminder, path |-> "update",
                                                  ok |-> u.success, target |-> task.id,
                                                  calls |-> u.calls])])
      ELSE LET c == createtask(acc.store, mapped.task, outcome[i]) IN
           importsLoop(reminders, i + 1, extantids, outcome,
                [acc EXCEPT !.store = c.store,
                            !.created = @ + 1,
                            !.calls = @ \o c.calls,
                            !.batch = Append(@, [reminder |-> reminder, path |-> "create",
                                                  ok |-> c.success, target |-> 0,
                                                  calls |-> c.calls])])

(* ------------------------------ actions -------------------------------- *)

Init ==
  /\ taskStore = <<>>
  /\ reminderStore = <<>>
  /\ last = NoCall

\* the tasks a user adds to the task store
NewTasks == {Task(""), [Task("a") EXCEPT !.priority = "H"]}

\* the reminders a user adds in the host: the texts the host prints for
\* body, due date, priority, completed and flagged, and whether it prints an id
NewReminders ==
  {[name |-> "n", body |-> "", duedate |-> "", priority |-> "", completed |-> "",
    hasid |-> TRUE, flagged |-> "false"],
   [name |-> "n", body |-> "", duedate |-> "", priority |-> "5", completed |-> "",
    hasid |-> TRUE, flagged |-> "false"],
   [name |-> "n", body |-> "", duedate |-> "", priority |-> "", completed |-> "true",
    hasid |-> TRUE, flagged |-> "false"],
   [name |-> "n", body |-> "", duedate |-> "", priority |-> "", completed |-> "",
    hasid |-> FALSE, flagged |-> "false"]}

\* a task is added outside the sync (task add)
TaskAdd ==
  /\ Len(taskStore) + Len(reminderStore) < MaxRecords
  /\ \E task \in NewTasks :
       taskStore' = Append(taskStore, [task EXCEPT !.id = NewTaskId(taskStore)])
  /\ last' = NoCall
  /\ UNCHANGED reminderStore

\* a task is completed or deleted outside the sync (task done, task delete):
\* it leaves the working set and is exported with id 0
TaskClose ==
  /\ \E i \in 1..Len(taskStore), status \in {"completed", "deleted"} :
       /\ taskStore[i].status = "pending"
       /\ taskStore' = [taskStore EXCEPT ![i].status = status, ![i].id = 0]
  /\ last' = NoCall
  /\ UNCHANGED reminderStore

\* a reminder is added in the host outside the sync
ReminderAdd ==
  /\ Len(taskStore) + Len(reminderStore) < MaxRecords
  /\ \E r \in NewReminders :
       reminderStore' = Append(reminderStore,
         [p \in Range(PROPERTIES) |->
            CASE p = "name" -> r.name
              [] p = "body" -> r.body
              [] p = "due date" -> r.duedate
              [] p = "priority" -> r.priority
              [] p = "completed" -> r.completed
              [] p = "id" -> (IF r.hasid THEN NewReminderId(reminderStore) ELSE "")
              [] OTHER -> r.flagged])
  /\ last' = NoCall
  /\ UNCHANGED taskStore

\* ReminderSync._exports(filterargs)
Export ==
  \E filterargs \in FilterArgs, returncode \in {0, 1} :
  \E tasks \in {tasklist(taskStore, filterargs, FALSE, FALSE, returncode)} :
    LET call == [NoCall EXCEPT !.op = "export", !.arg = filterargs,
                               !.taskcalls = exportsTaskCalls(filterargs),
                               !.tasksok = returncode = 0,
                               !.size = Len(tasks)]
    IN /\ UNCHANGED taskStore
       /\ IF tasks = <<>>
          THEN /\ last' = call
               /\ UNCHANGED reminderStore
          ELSE \E answer \in ReadAnswers :
               \E fetched \in {fetch(reminderStore, answer)} :
               IF fetched.raised
               THEN /\ last' = [call EXCEPT !.raised = TRUE]
                    /\ UNCHANGED reminderStore
               ELSE \E outcome \in [1..Len(tasks) -> BOOLEAN] :
                    \E done \in {exportsLoop(tasks, 1, ExtantIds(fetched.reminders), outcome,
                                   [rows |-> reminderStore, created |-> 0, updated |-> 0,
                                    batch |-> <<>>, commands |-> <<>>])} :
                    /\ Len(taskStore) + Len(done.rows) <= MaxRecords
                    /\ reminderStore' = done.rows
                    /\ last' = [call EXCEPT !.ids = ExtantIds(fetched.reminders),
                                            !.listing = answer.listing /\ reminderStore # <<>>,
                                            !.created = done.created,
                                            !.updated = done.updated,
                                            !.ret = done.created + done.updated,
                                            !.batch = done.batch,
                                            !.commands = done.commands]

\* ReminderSync._imports(completed)
Import ==
  \E completed \in BOOLEAN, answer \in ReadAnswers :
  \E fetched \in {fetch(reminderStore, answer)} :
    LET call == [NoCall EXCEPT !.op = "import", !.arg = IF completed THEN "completed" ELSE ""]
    IN /\ UNCHANGED reminderStore
       /\ IF fetched.raised
          THEN /\ last' = [call EXCEPT !.raised = TRUE]
               /\ UNCHANGED taskStore
          ELSE IF fetched.reminders = <<>>
          THEN /\ last' = call
               /\ UNCHANGED taskStore
          ELSE \E returncode \in {0, 1} :
               \E reminders \in {CompletedFilter(fetched.reminders, completed)} :
               \E extantids \in {ReverseMap(importsTasks(taskStore, returncode))} :
               \E outcome \in [1..Len(reminders) -> BOOLEAN] :
               \E done \in {importsLoop(reminders, 1, extantids, outcome,
                              [store |-> taskStore, created |-> 0, updated |-> 0,
                               batch |-> <<>>, calls |-> <<>>, raised |-> FALSE])} :
                 /\ Len(done.store) + Len(reminderStore) <= MaxRecords
                 /\ taskStore' = done.store
                 /\ last' = [call EXCEPT !.raised = done.raised,
                                         !.ids = DOMAIN extantids,
                                         !.listing = answer.listing /\ reminderStore # <<>>,
                                         !.tasksok = returncode = 0,
                                         !.size = Len(reminders),
                                         !.created = done.created,
                                         !.updated = done.updated,
                                         !.ret = IF done.raised THEN 0
                                                 ELSE done.created + done.updated,
                                         !.batch = done.batch,
                                         !.taskcalls =
                                           <<[fn |-> "tasklist", id |-> 0, rid |-> ""]>>
                                           \o done.calls]

Next == TaskAdd \/ TaskClose \/ ReminderAdd \/ Export \/ Import

Spec == Init /\ [][Next]_vars

(* ------------- sync of a record both stores hold ----------------------- *)

\* most annotations a task has when an import starts
MaxAnnotations == 2

\* the task of a linked pair: it stores the id r1, with or without priority,
\* critical tag and annotation
LinkedTasks ==
  {[Task("a") EXCEPT !.id = 1, !.rid = "r1", !.priority = priority, !.tags = tags,
                     !.annotations = annotations] :
     priority \in {"", "H"}, tags \in {<<>>, <<"critical">>},
     annotations \in {<<>>, <<"b">>}}

\* the reminder of a linked pair, as the host prints it
LinkedRows ==
  {[p \in Range(PROPERTIES) |->
      CASE p = "name" -> "a" [] p = "id" -> "r1" [] p = "body" -> body
        [] p = "priority" -> priority [] p = "flagged" -> flagged
        [] p = "completed" -> "" [] OTHER -> ""] :
     body \in {"", "b"}, priority \in {"", "0", "9"},
     flagged \in {"false", "true"}}

\* a task and a reminder joined by an earlier sync and changed since
LinkedInit ==
  /\ \E task \in LinkedTasks : taskStore = <<task>>
  /\ \E row \in LinkedRows : reminderStore = <<row>>
  /\ last = NoCall

\* an import, as long as the annotations stay within the bound
LinkedImport ==
  /\ \A i \in 1..Len(taskStore) : Len(taskStore[i].annotations) < MaxAnnotations
  /\ Import

LinkedNext == Export \/ LinkedImport

LinkedSpec == LinkedInit /\ [][LinkedNext]_vars

(* ------------- the bulk parser alone (osa.py parse) -------------------- *)

\* the values a reminder list prints: plain texts without comma, and a date,
\* printed as the token date and a literal with commas of its own
ParserValues ==
  {[date |-> FALSE, text |-> "Buy milk"],
   [date |-> FALSE, text |-> "false"],
   [date |-> FALSE, text |-> "id-123"],
   [date |-> TRUE, text |-> "Monday, April 22, 2024 at 6:00:00 PM"]}

\* the property lists the parser is called with
ParserProperties ==
  {<<"name">>, <<"name", "id">>, <<"name", "completed", "due date", "id">>}

\* the sequences of at most n values
RECURSIVE ValueSeqs(_)
ValueSeqs(n) ==
  IF n = 0 THEN {<<>>}
  ELSE ValueSeqs(n - 1)
       \cup {Append(fields, v) : fields \in {f \in ValueSeqs(n - 1) : Len(f) = n - 1},
                                 v \in ParserValues}

\* the single stream the host prints for the values, no record delimiter
HostStream(fields) ==
  Join([i \in 1..Len(fields) |->
          IF fields[i].date THEN "date " \o fields[i].text ELSE fields[i].text], ", ")

\* an output waits to be parsed
ParserInit ==
  /\ taskStore = <<>>
  /\ reminderStore = <<>>
  /\ \E fields \in ValueSeqs(MaxFields), properties \in ParserProperties :
       last = [op |-> "output", fields |-> fields, properties |-> properties,
               output |-> HostStream(fields), values |-> <<>>, raised |-> FALSE,
               result |-> <<>>]

\* parse.reminderproperties(output, properties)
Parse ==
  /\ last.op = "output"
  /\ \E parsed \in {reminderproperties(ExStr(last.output), last.properties)} :
       last' = [last EXCEPT !.op = "parsed",
                            !.values = Scan(Chars(last.output)),
                            !.raised = parsed.raised,
                            !.result = parsed.result]
  /\ UNCHANGED <<taskStore, reminderStore>>

ParserNext == Parse

ParserSpec == ParserInit /\ [][ParserNext]_vars

(* ------------- the executor alone (osa.py execute) --------------------- *)

\* what the process can print on stdout: nothing, white space, a listing of
\* one reminder, JSON-looking texts, the reference of a new reminder, a word
ExecutorStdouts ==
  {"", " \n", "n, b, , 0, false, r1, false", "[1]", "{}", "[1", "reminder id r1", "true"}

\* what the process can print on stderr
ExecutorStderrs == {"", "execution error"}

\* the process has finished and its result waits to be read
ExecutorInit ==
  /\ taskStore = <<>>
  /\ reminderStore = <<>>
  /\ \E returncode \in {0, 1}, stdout \in ExecutorStdouts, stderr \in ExecutorStderrs :
       last = [op |-> "process", returncode |-> returncode, stdout |-> stdout,
               stderr |-> stderr, result |-> ExNone, raised |-> FALSE, reminders |-> <<>>]

\* osascript.getreminders: the read command was run
ExecuteRead ==
  /\ last.op = "process"
  /\ \E result \in {execute(last.returncode, last.stdout, last.stderr)} :
     \E got \in {getreminders(result, PROPERTIES)} :
       last' = [last EXCEPT !.op = "read", !.result = result, !.raised = got.raised,
                            !.reminders = got.reminders]
  /\ UNCHANGED <<taskStore, reminderStore>>

\* osascript.builder.execute on a built update command
ExecuteUpdate ==
  /\ last.op = "process"
  /\ last' = [last EXCEPT !.op = "update",
                          !.result = execute(last.returncode, last.stdout, last.stderr)]
  /\ UNCHANGED <<taskStore, reminderStore>>

\* osascript.builder.execute on a built delete command
ExecuteDelete ==
  /\ last.op = "process"
  /\ last' = [last EXCEPT !.op = "delete",
                          !.result = execute(last.returncode, last.stdout, last.stderr)]
  /\ UNCHANGED <<taskStore, reminderStore>>

ExecutorNext == ExecuteRead \/ ExecuteUpdate \/ ExecuteDelete

ExecutorSpec == ExecutorInit /\ [][ExecutorNext]_vars

(* ------------- the command builder (osa.py builder) -------------------- *)

\* most configuring calls made on one builder before build
MaxBuilderCalls == 3

DigitVal(c) == CHOOSE n \in 0..9 : ToString(n) = c

\* int(s) for a text of digits
RECURSIVE ToInt(_)
ToInt(s) ==
  IF Len(s) = 0 THEN 0
  ELSE ToInt(SubSeq(s, 1, Len(s) - 1)) * 10 + DigitVal(CharAt(s, Len(s)))

\* a datetime: the date as YYYY-MM-DD, the time of day in seconds
PyDateTime(iso, seconds) == [t |-> "date", s |-> iso, n |-> seconds]

\* strftime("%A"), strftime("%B") and strftime("%p") of a datetime
WeekdayName(dt) ==
  LET y == ToInt(SubSeq(dt.s, 1, 4))
      m == ToInt(SubSeq(dt.s, 6, 7))
      d == ToInt(SubSeq(dt.s, 9, 10))
      shift == <<0, 3, 2, 5, 0, 3, 5, 1, 4, 6, 2, 4>>
      yy == IF m < 3 THEN y - 1 ELSE y
      w == (yy + (yy \div 4) - (yy \div 100) + (yy \div 400) + shift[m] + d) % 7
  IN <<"Sunday", "Monday", "Tuesday", "Wednesday", "Thursday", "Friday", "Saturday">>[w + 1]

MonthName(dt) ==
  <<"January", "February", "March", "April", "May", "June", "July", "August",
    "September", "October", "November", "December">>[ToInt(SubSeq(dt.s, 6, 7))]

Meridian(dt) == IF dt.n \div 3600 < 12 THEN "AM" ELSE "PM"

Pad2(n) == IF n < 10 THEN "0" \o ToString(n) ELSE ToString(n)

\* str(dt.time().replace(microsecond=0))
TimeText(dt) ==
  Pad2(dt.n \div 3600) \o ":" \o Pad2((dt.n % 3600) \div 60) \o ":" \o Pad2(dt.n % 60)

\* OsaDate.FromDatetime
FromDatetime(dt) ==
  WeekdayName(dt) \o ", " \o MonthName(dt) \o " " \o ToString(ToInt(SubSeq(dt.s, 9, 10)))
  \o ", " \o ToString(ToInt(SubSeq(dt.s, 1, 4))) \o " at " \o TimeText(dt) \o " "
  \o Meridian(dt)

\* OsaDate(value): ValueError unless the pattern matches in full
OsaDate(value) == [raised |-> ~PatternFullMatch(value), text |-> value]

\* str.replace(old, new): every occurrence, left to right
RECURSIVE Replace(_, _, _)
Replace(text, old, new) ==
  LET at == Find(text, old, 1) IN
  IF at = 0 THEN text
  ELSE SubSeq(text, 1, at - 1) \o new
       \o Replace(SubSeq(text, at + Len(old), Len(text)), old, new)

\* a formatting that writes a boolean as the number it is
formatvalueBoolAsNumber(value) ==
  CASE value.t = "none" -> "missing value"
    [] value.t \in {"bool", "int"} -> ToString(value.n)
    [] value.t = "date" -> "date \"" \o FromDatetime(value) \o "\""
    [] value.t = "str" /\ isosadate(value.s) -> "date \"" \o value.s \o "\""
    [] OTHER -> "\"" \o Replace(value.s, "\"", "\\\"") \o "\""

\* osascript.builder._formatvalue
formatvalue(value) ==
  CASE value.t = "none" -> "missing value"
    [] value.t = "bool" -> (IF value.n # 0 THEN "true" ELSE "false")
    [] value.t = "int" -> ToString(value.n)
    [] value.t = "date" -> "date \"" \o FromDatetime(value) \o "\""
    [] value.t = "str" /\ isosadate(value.s) -> "date \"" \o value.s \o "\""
    [] OTHER -> "\"" \o Replace(value.s, "\"", "\\\"") \o "\""

\* osascript.builder(): a field that is None holds "" (PyNone for the value)
builder ==
  [listclause |-> "", targetclause |-> "", propertyname |-> "", propertyvalue |-> PyNone,
   index |-> "", properties |-> <<>>, propertyclauses |-> <<>>, operation |-> "",
   command |-> ""]

create(b) == [b EXCEPT !.operation = "make new reminder"]

read(b, properties) ==
  [b EXCEPT !.operation = "get",
            !.properties = IF properties = <<>> THEN PROPERTIES ELSE properties]

update(b, name, value) ==
  [b EXCEPT !.operation = "set", !.propertyname = name, !.propertyvalue = value]

delete(b) == [b EXCEPT !.operation = "delete"]

bylist(b, name) ==
  IF name # "" /\ b.operation # ""
  THEN [b EXCEPT !.listclause = IF b.operation = "make new reminder"
                                THEN " at list \"" \o name \o "\""
                                ELSE " of list \"" \o name \o "\""]
  ELSE b

byname(b, name) == [b EXCEPT !.targetclause = " whose name is \"" \o name \o "\""]

\* byindex(index): index is a member of OsaIndices (enum) or a str, which is
\* looked up among the member names and replaced by FIRST when it is none
byindex(b, index) ==
  [b EXCEPT !.index =
     IF index.enum THEN index.s
     ELSE CASE index.s = "FIRST" -> "first"
            [] index.s = "LAST" -> "last"
            [] index.s = "SOME" -> "some"
            [] index.s = "EVERY" -> "every"
            [] OTHER -> "first"]

withproperties(b, properties) == [b EXCEPT !.propertyclauses = properties]

\* osascript.builder._formatproperties
formatproperties(b) ==
  Join([i \in 1..Len(b.propertyclauses) |->
          b.propertyclauses[i][1] \o ":" \o formatvalue(b.propertyclauses[i][2])], ", ")

\* osascript.builder._buildtarget
buildtarget(b) ==
  Join((IF b.index # "" THEN <<b.index>> ELSE <<>>) \o <<"reminder">>
       \o (IF b.listclause # "" THEN <<b.listclause>> ELSE <<>>)
       \o (IF b.targetclause # "" THEN <<b.targetclause>> ELSE <<>>), " ")

\* a build that produces a command whatever the operation
buildAlways(b) == [b EXCEPT !.command = "tell application \"Reminders\" to " \o b.operation]

\* osascript.builder.build
build(b) ==
  IF b.operation = "" THEN b
  ELSE LET result ==
         CASE b.operation = "make new reminder" ->
                "make new reminder" \o b.listclause \o " with properties {"
                \o formatproperties(b) \o "}"
           [] b.operation = "get" ->
                "get {" \o Join(b.properties, ", ") \o "} of " \o buildtarget(b)
           [] b.operation = "set" ->
                "set " \o b.propertyname \o " of " \o buildtarget(b) \o " to "
                \o formatvalue(b.propertyvalue)
           [] OTHER -> "delete (" \o buildtarget(b) \o ")"
       IN [b EXCEPT !.command = "tell application \"Reminders\" to " \o result]

\* the values given to update
BuilderValues ==
  {PyNone, PyBool(TRUE), PyBool(FALSE), PyInt(5),
   PyDateTime("2024-04-22", 0), PyDateTime("2024-04-22", 64800),
   PyStr("April 22, 2024 at 6:00:00 PM"), PyStr("a"), PyStr("say \"hi\"")}

\* the payloads given to withproperties
BuilderPayloads ==
  {<<<<"name", PyStr("a")>>>>,
   <<<<"name", PyStr("a")>>, <<"priority", PyInt(5)>>, <<"flagged", PyBool(TRUE)>>>>}

\* the indices given to byindex
BuilderIndices == {[enum |-> TRUE, s |-> "every"], [enum |-> FALSE, s |-> "first"]}

\* a fresh builder
BuilderInit ==
  /\ taskStore = <<>>
  /\ reminderStore = <<>>
  /\ last = [op |-> "builder", calls |-> 0, b |-> builder, spawned |-> FALSE,
             result |-> ExNone]

\* a builder not yet built takes one more configuring call
CanConfigure == last.op \in {"builder", "configure"} /\ last.calls < MaxBuilderCalls

\* the state after a configuring call that left the builder as b
Configured(b) == [last EXCEPT !.op = "configure", !.calls = @ + 1, !.b = b]

BuilderCreate ==
  /\ CanConfigure
  /\ last' = Configured(create(last.b))
  /\ UNCHANGED <<taskStore, reminderStore>>

BuilderRead ==
  /\ CanConfigure
  /\ \E properties \in {<<>>, <<"name", "id">>} : last' = Configured(read(last.b, properties))
  /\ UNCHANGED <<taskStore, reminderStore>>

BuilderUpdate ==
  /\ CanConfigure
  /\ \E value \in BuilderValues : last' = Configured(update(last.b, "name", value))
  /\ UNCHANGED <<taskStore, reminderStore>>

BuilderDelete ==
  /\ CanConfigure
  /\ last' = Configured(delete(last.b))
  /\ UNCHANGED <<taskStore, reminderStore>>

BuilderByList ==
  /\ CanConfigure
  /\ \E name \in {"", "L"} : last' = Configured(bylist(last.b, name))
  /\ UNCHANGED <<taskStore, reminderStore>>

BuilderByName ==
  /\ CanConfigure
  /\ last' = Configured(byname(last.b, "a"))
  /\ UNCHANGED <<taskStore, reminderStore>>

BuilderByIndex ==
  /\ CanConfigure
  /\ \E index \in BuilderIndices : last' = Configured(byindex(last.b, index))
  /\ UNCHANGED <<taskStore, reminderStore>>

BuilderWithProperties ==
  /\ CanConfigure
  /\ \E properties \in BuilderPayloads : last' = Configured(withproperties(last.b, properties))
  /\ UNCHANGED <<taskStore, reminderStore>>

BuilderBuild ==
  /\ last.op \in {"builder", "configure"}
  /\ last' = [last EXCEPT !.op = "build", !.b = build(last.b)]
  /\ UNCHANGED <<taskStore, reminderStore>>

\* osascript.builder.execute: no process without a command
BuilderExecute ==
  /\ last.op = "build"
  /\ IF last.b.command = ""
     THEN last' = [last EXCEPT !.op = "execute", !.spawned = FALSE, !.result = ExNone]
     ELSE \E returncode \in {0, 1}, stdout \in {"", "reminder id r1"} :
            last' = [last EXCEPT !.op = "execute", !.spawned = TRUE,
                                 !.result = execute(returncode, stdout, "")]
  /\ UNCHANGED <<taskStore, reminderStore>>

BuilderNext ==
  \/ BuilderCreate \/ BuilderRead \/ BuilderUpdate \/ BuilderDelete
  \/ BuilderByList \/ BuilderByName \/ BuilderByIndex \/ BuilderWithProperties
  \/ BuilderBuild \/ BuilderExecute

BuilderSpec == BuilderInit /\ [][BuilderNext]_vars

(* ------------- the update commands (manager.py _updatereminder) -------- *)

\* the locator rewrite left out: the command stays as the builder built it
updatecommandAsBuilt(reminder, listname, prop, value) ==
  LET first == byindex(update(builder, prop, value), [enum |-> FALSE, s |-> "first"])
  IN build(IF listname # "" THEN bylist(first, listname) ELSE first).command

\* the text of the command _updatereminder issues for one payload property:
\* built on the first reminder (of the list, when the manager has one), then
\* every "first reminder" in the text replaced by the id locator
updatecommand(reminder, listname, prop, value) ==
  LET first == byindex(update(builder, prop, value), [enum |-> FALSE, s |-> "first"])
      cmd == build(IF listname # "" THEN bylist(first, listname) ELSE first)
  IN IF reminder.id # ""
     THEN Replace(cmd.command, "first reminder", "reminder id " \o reminder.id)
     ELSE cmd.command

\* the formatted value of a set command: the text after the ' to ' that
\* follows the locator
ValueText(text) ==
  SubSeq(text, Find(text, " to ", Find(text, " of ", 1)) + 4, Len(text))

\* the rows after the host carried out a set command on the reminder with
\* this id: the property holds the value the command gives
HostRun(rows, id, property, text) ==
  [i \in 1..Len(rows) |->
     IF rows[i]["id"] = id THEN [rows[i] EXCEPT ![property] = ValueText(text)] ELSE rows[i]]

\* an update that gives up at the first command the host refuses
updatecommandsStopAtFailure(rows, reminder, listname, outcome) ==
  IF reminder.id = ""
  THEN [success |-> FALSE, commands |-> <<>>, rows |-> rows]
  ELSE LET properties == osaproperties(reminder)
           failed == {i \in 1..Len(properties) : ~outcome[i]}
           issued == IF failed = {} THEN Len(properties)
                     ELSE CHOOSE i \in failed : \A j \in failed : i <= j
           commands == [i \in 1..issued |->
                          [property |-> properties[i][1], ok |-> outcome[i],
                           text |-> updatecommand(reminder, listname, properties[i][1],
                                                  properties[i][2])]]
           RECURSIVE apply(_, _)
           apply(i, acc) ==
             IF i > issued THEN acc
             ELSE apply(i + 1, IF outcome[i]
                               THEN HostRun(acc, reminder.id, properties[i][1],
                                            commands[i].text)
                               ELSE acc)
       IN [success |-> failed = {}, commands |-> commands, rows |-> apply(1, rows)]

\* _updatereminder as the commands it passes to the executor, in order, each
\* with the property it sets; outcome[i]: the host carries out command i
\* (execute returns a true value), otherwise execute returns None
updatecommands(rows, reminder, listname, outcome) ==
  IF reminder.id = ""
  THEN [success |-> FALSE, commands |-> <<>>, rows |-> rows]
  ELSE LET properties == osaproperties(reminder)
           commands == [i \in 1..Len(properties) |->
                          [property |-> properties[i][1], ok |-> outcome[i],
                           text |-> updatecommand(reminder, listname, properties[i][1],
                                                  properties[i][2])]]
           RECURSIVE apply(_, _)
           apply(i, acc) ==
             IF i > Len(properties) THEN acc
             ELSE apply(i + 1, IF ExTruthy(CommandResult(outcome[i], ""))
                               THEN HostRun(acc, reminder.id, properties[i][1],
                                            commands[i].text)
                               ELSE acc)
       IN [success |-> \A i \in 1..Len(properties) : ExTruthy(CommandResult(outcome[i], "")),
           commands |-> commands,
           rows |-> apply(1, rows)]

\* the reminders given to _updatereminder: with and without an id, and a name
\* that holds the words of the locator
UpdateReminders ==
  {[Reminder(name) EXCEPT !.id = id, !.body = body, !.priority = PyInt(priority),
                          !.flagged = PyBool(flagged), !.duedate = duedate] :
     name \in {"a", "my first reminder"}, id \in {"", "r1"}, body \in {"", "b"},
     priority \in {0, 5}, flagged \in BOOLEAN,
     duedate \in {PyNone, PyDateTime("2024-04-22", 64800)}}

\* the reminder the host holds under the id r1 before the update
UpdateRows ==
  <<[p \in Range(PROPERTIES) |->
       CASE p = "name" -> "old" [] p = "id" -> "r1" [] p = "priority" -> "9"
         [] p = "completed" -> "false" [] p = "flagged" -> "true"
         [] OTHER -> "missing value"]>>

UpdateInit ==
  /\ taskStore = <<>>
  /\ reminderStore = UpdateRows
  /\ \E reminder \in UpdateReminders, listname \in {"", "L"} :
       last = [op |-> "reminder", reminder |-> reminder, listname |-> listname,
               outcome |-> <<>>, success |-> FALSE, commands |-> <<>>]

\* ReminderSync(listname)._updatereminder(reminder)
UpdateReminder ==
  /\ last.op = "reminder"
  /\ \E outcome \in [1..Len(osaproperties(last.reminder)) -> BOOLEAN] :
       \E done \in {updatecommands(reminderStore, last.reminder, last.listname, outcome)} :
          /\ last' = [last EXCEPT !.op = "updated", !.outcome = outcome,
                                  !.success = done.success, !.commands = done.commands]
          /\ reminderStore' = done.rows
  /\ UNCHANGED taskStore

UpdateNext == UpdateReminder

UpdateSpec == UpdateInit /\ [][UpdateNext]_vars

(* ------------- the priority mapping (core.py totask, FromTask) --------- *)

\* most conversions applied in a row to one record
MaxHops == 2

\* the reminders given to totask: every priority of the external range
MapperReminders ==
  {[Reminder("n") EXCEPT !.priority = PyInt(priority), !.body = body,
                         !.completed = PyBool(completed), !.flagged = PyBool(flagged)] :
     priority \in 0..9, body \in {"", "b"}, completed \in BOOLEAN, flagged \in BOOLEAN}

\* the tasks given to FromTask: every domain code, no code, and a code the
\* domain does not have
MapperTasks ==
  {[Task("n") EXCEPT !.priority = priority, !.status = status, !.tags = tags] :
     priority \in {"H", "M", "L", "", "X"}, status \in {"pending", "completed"},
     tags \in {<<>>, <<"critical">>}}

\* path: the priorities of the record, from the one given to the last result
MapperInit ==
  /\ taskStore = <<>>
  /\ reminderStore = <<>>
  /\ \/ \E reminder \in MapperReminders :
          last = [op |-> "reminder", reminder |-> reminder, task |-> Task(""),
                  path |-> <<reminder.priority>>]
     \/ \E task \in MapperTasks :
          last = [op |-> "task", reminder |-> Reminder(""), task |-> task,
                  path |-> <<PyStr(task.priority)>>]

\* reminder.totask()
MapToTask ==
  /\ last.op = "reminder"
  /\ Len(last.path) <= MaxHops
  /\ ~totask(last.reminder).raised
  /\ LET task == totask(last.reminder).task
     IN last' = [last EXCEPT !.op = "task", !.task = task,
                             !.path = Append(@, PyStr(task.priority))]
  /\ UNCHANGED <<taskStore, reminderStore>>

\* Reminder.FromTask(task)
MapFromTask ==
  /\ last.op = "task"
  /\ Len(last.path) <= MaxHops
  /\ LET reminder == FromTask(last.task)
     IN last' = [last EXCEPT !.op = "reminder", !.reminder = reminder,
                             !.path = Append(@, reminder.priority)]
  /\ UNCHANGED <<taskStore, reminderStore>>

MapperNext == MapToTask \/ MapFromTask

MapperSpec == MapperInit /\ [][MapperNext]_vars

(* ------------- the date encoding (core.py OsaDate) --------------------- *)

\* the datetimes given to FromDatetime: years of four and of fewer digits,
\* every hour of the day, with and without minutes and seconds
DateTimes ==
  {PyDateTime(iso, hour * 3600 + rest) :
     iso \in {"2024-04-22", "2025-03-05", "0999-01-01", "9999-12-31"},
     hour \in 0..23, rest \in {0, 1805}}

DateInit ==
  /\ taskStore = <<>>
  /\ reminderStore = <<>>
  /\ \E dt \in DateTimes :
       last = [op |-> "datetime", dt |-> dt, raised |-> FALSE, text |-> "",
               recognised |-> FALSE]

\* OsaDate.FromDatetime(dt), then isosadate on what it returned
Encode ==
  /\ last.op = "datetime"
  /\ LET made == OsaDate(FromDatetime(last.dt))
     IN last' = [last EXCEPT !.op = "encoded", !.raised = made.raised,
                             !.text = IF made.raised THEN "" ELSE made.text,
                             !.recognised = ~made.raised /\ isosadate(made.text)]
  /\ UNCHANGED <<taskStore, reminderStore>>

DateNext == Encode

DateSpec == DateInit /\ [][DateNext]_vars

(* ------------- the sync gate (sync/base.py SyncManager) ---------------- *)

\* what gettargetconfig returns: None (present FALSE), or the four flags
TargetConfigs ==
  {[present |-> FALSE, exportsenabled |-> FALSE, exportsauto |-> FALSE,
    importsenabled |-> FALSE, importsauto |-> FALSE]}
  \cup [present : {TRUE}, exportsenabled : BOOLEAN, exportsauto : BOOLEAN,
        importsenabled : BOOLEAN, importsauto : BOOLEAN]

\* SyncManager._loadconfig on a manager with the capabilities of m
loadconfig(m, config) ==
  IF config.present
  THEN [m EXCEPT !.exportsenabled = IF m.canexport THEN config.exportsenabled ELSE FALSE,
                 !.exportsauto = IF m.canexport THEN config.exportsauto ELSE FALSE,
                 !.importsenabled = IF m.canimport THEN config.importsenabled ELSE FALSE,
                 !.importsauto = IF m.canimport THEN config.importsauto ELSE FALSE]
  ELSE [m EXCEPT !.exportsenabled = m.canexport, !.exportsauto = FALSE,
                 !.importsenabled = m.canimport, !.importsauto = FALSE]

\* SyncManager(name, canimport, canexport)
SyncManager(canimport_, canexport_, config) ==
  loadconfig([canimport |-> canimport_, canexport |-> canexport_,
              exportsenabled |-> FALSE, exportsauto |-> FALSE,
              importsenabled |-> FALSE, importsauto |-> FALSE], config)

canimport(m) == m.canimport /\ m.importsenabled

canexport(m) == m.canexport /\ m.exportsenabled

shouldautoimport(m) == canimport(m) /\ m.importsauto

shouldautoexport(m) == canexport(m) /\ m.exportsauto

\* imports without the gate
importsUngated(m, count) == [ran |-> TRUE, ret |-> count]

\* SyncManager.imports: count is what _imports returns when it runs
imports(m, count) ==
  IF ~canimport(m) THEN [ran |-> FALSE, ret |-> 0] ELSE [ran |-> TRUE, ret |-> count]

\* SyncManager.exports: count is what _exports returns when it runs
exports(m, count) ==
  IF ~canexport(m) THEN [ran |-> FALSE, ret |-> 0] ELSE [ran |-> TRUE, ret |-> count]

\* the counts _imports and _exports return
GateCounts == {0, 1}

GateInit ==
  /\ taskStore = <<>>
  /\ reminderStore = <<>>
  /\ \E canimport_ \in BOOLEAN, canexport_ \in BOOLEAN, config \in TargetConfigs :
       last = [op |-> "manager", config |-> config,
               m |-> SyncManager(canimport_, canexport_, config),
               ran |-> FALSE, ret |-> 0]

\* manager.imports()
GateImports ==
  /\ \E count \in GateCounts :
       LET done == imports(last.m, count)
       IN last' = [last EXCEPT !.op = "imports", !.ran = done.ran, !.ret = done.ret]
  /\ UNCHANGED <<taskStore, reminderStore>>

\* manager.exports()
GateExports ==
  /\ \E count \in GateCounts :
       LET done == exports(last.m, count)
       IN last' = [last EXCEPT !.op = "exports", !.ran = done.ran, !.ret = done.ret]
  /\ UNCHANGED <<taskStore, reminderStore>>

GateNext == GateImports \/ GateExports

GateSpec == GateInit /\ [][GateNext]_vars

(* ------------- the scan, character by character (osa.py parse) --------- *)

\* outputs of the read command: plain values, values with a date printed as
\* the token date and a literal, and a value that begins with the letters of
\* the token
ScannerOutputs ==
  {"Buy milk, false",
   "date Monday, April 22, 2024 at 6:00:00 PM, id-123",
   "a, date March 5, 2025 at 9:30:00 AM",
   "n, dated 12, 2024 at 6:00 PM, 5"}

\* pos: the characters consumed; fieldstart: the first character after the
\* last value the loop appended
ScannerInit ==
  /\ taskStore = <<>>
  /\ reminderStore = <<>>
  /\ \E output \in ScannerOutputs :
       last = [op |-> "scanning", output |-> output, pos |-> 0, fieldstart |-> 1,
               st |-> [values |-> <<>>, currentvalue |-> "", indate |-> FALSE]]

\* one turn of the loop 'for char in output'
ScanChar ==
  /\ last.op = "scanning"
  /\ last.pos < Len(last.output)
  /\ LET st == ScanStep(last.st, CharAt(last.output, last.pos + 1))
     IN last' = [last EXCEPT !.pos = @ + 1, !.st = st,
                             !.fieldstart = IF Len(st.values) > Len(last.st.values)
                                            THEN last.pos + 2 ELSE @]
  /\ UNCHANGED <<taskStore, reminderStore>>

\* after the loop: what is left of the last value is appended
ScanEnd ==
  /\ last.op = "scanning"
  /\ last.pos = Len(last.output)
  /\ last' = [last EXCEPT !.op = "scanned",
                          !.st.values = IF strip(last.st.currentvalue) # ""
                                        THEN Append(@, strip(last.st.currentvalue)) ELSE @]
  /\ UNCHANGED <<taskStore, reminderStore>>

ScannerNext == ScanChar \/ ScanEnd

ScannerSpec == ScannerInit /\ [][ScannerNext]_vars

(* ------------------------------ properties ----------------------------- *)

\* The listing the host prints for the store parses back into the store's
\* rows, one properties dict per row: what fetch relies on.
ListingParsesToRows ==
  reminderStore # <<>> =>
    LET parsed == reminderproperties(execute(0, HostOutput(reminderStore), ""), PROPERTIES)
    IN ~parsed.raised /\ parsed.result = reminderStore

\* the ids of the rows of the external store
StoreIds(rows) == {rows[i]["id"] : i \in 1..Len(rows)} \ {""}

\* the external id the task store holds for the (pending) task with this id
StoredRid(id) == taskStore[CHOOSE i \in 1..Len(taskStore) : taskStore[i].id = id].rid

\* the entries of a batch that took a path, and those of them that succeeded
Entries(batch, path) == {k \in 1..Len(batch) : batch[k].path = path}

OkEntries(batch, path) == {k \in Entries(batch, path) : batch[k].ok}

\* the entries of an export batch by the commands issued for them
MakeEntries(batch) ==
  {k \in 1..Len(batch) : batch[k].commands # <<>> /\ batch[k].commands[1].verb = "make"}

SetEntries(batch) ==
  {k \in 1..Len(batch) : batch[k].commands # <<>> /\ batch[k].commands[1].verb = "set"}

\* the fetch of the last call ended in an exception
FetchRaised == last.raised /\ Entries(last.batch, "raise") = {}

\* the last call ran with a task query that succeeded, a fetch that returned,
\* a loop that finished, and every command or task-store call carried out
AllOk(call) ==
  /\ ~call.raised
  /\ call.tasksok
  /\ \A k \in 1..Len(call.batch) : call.batch[k].path # "skip" => call.batch[k].ok

\* C1: in export, a task with a non-empty description gets set commands on
\* its stored external id exactly when that id is among the ids the fetch
\* returned (which, when the host lists the store, are the ids of the store);
\* otherwise it gets one make command, and a successful make attaches the new
\* id to the in-memory task. created counts the successful makes, updated the
\* tasks on the update path. A task with an empty description gets no command.
C1_ExportPaths ==
  last.op = "export" /\ ~last.raised =>
    /\ \A k \in 1..Len(last.batch) :
         LET e == last.batch[k]
             stored == StoredRid(e.task.id)
         IN IF e.task.description = "" THEN e.commands = <<>>
            ELSE IF stored # "" /\ stored \in last.ids
            THEN /\ e.commands # <<>>
                 /\ \A c \in Range(e.commands) : c.verb = "set" /\ c.id = stored
            ELSE /\ Len(e.commands) = 1
                 /\ e.commands[1].verb = "make"
                 /\ e.newid # "" => e.task.rid = e.newid
    /\ last.created = Cardinality({k \in MakeEntries(last.batch) : last.batch[k].newid # ""})
    /\ last.updated = Cardinality(SetEntries(last.batch))
    /\ last.listing =>
         last.ids = StoreIds(reminderStore)
                      \ {last.batch[k].newid : k \in MakeEntries(last.batch)}

\* C1 witness: a task that stores an id the host lists was exported again:
\* created = 0, updated = 1.
C1_Reexported ==
  /\ last.op = "export"
  /\ last.listing
  /\ last.created = 0
  /\ last.updated = 1
  /\ \E k \in SetEntries(last.batch) :
       last.batch[k].ok /\ StoredRid(last.batch[k].task.id) \in StoreIds(reminderStore)

\* C2 (as claimed): an export that follows an export with nothing in between
\* creates nothing, updates as many records as the first run exported, and
\* leaves the number of ids in the external store as it was.
C2_ExportIdempotent ==
  [][(/\ last.op = "export" /\ AllOk(last)
      /\ last'.op = "export" /\ AllOk(last') /\ last'.listing
      /\ last'.arg = last.arg)
     => /\ last'.created = 0
        /\ last'.updated = last.ret
        /\ Cardinality(StoreIds(reminderStore')) = Cardinality(StoreIds(reminderStore))]_vars

\* C3 (as claimed): in import, a reminder without id causes no task-store
\* call; one whose id is a key of the reverse map causes one modify of the
\* existing task the map names; every other one causes exactly one add; the
\* value returned is created + updated, skipped reminders not counted.
C3_ImportPaths ==
  last.op = "import" /\ ~last.raised =>
    /\ \A k \in 1..Len(last.batch) :
         LET e == last.batch[k] IN
         IF e.reminder.id = "" THEN e.calls = <<>>
         ELSE IF e.reminder.id \in last.ids
         THEN /\ Len(e.calls) = 1
              /\ e.calls[1].fn = "modify"
              /\ e.calls[1].id = e.target
              /\ \E i \in 1..Len(taskStore) :
                   taskStore[i].id = e.target /\ taskStore[i].rid = e.reminder.id
         ELSE Cardinality({c \in 1..Len(e.calls) : e.calls[c].fn = "add"}) = 1
    /\ last.ret = last.created + last.updated
    /\ last.created + last.updated
         = Cardinality({k \in 1..Len(last.batch) : last.batch[k].reminder.id # ""})

\* C4 (as claimed): created and updated count only the records whose
\* command or task-store call succeeded.
C4_CountsOnlySuccesses ==
  last.op \in {"export", "import"} /\ ~last.raised =>
    /\ last.created = Cardinality(OkEntries(last.batch, "create"))
    /\ last.updated = Cardinality(OkEntries(last.batch, "update"))
    /\ last.ret = last.created + last.updated

\* C5 (as claimed): a failure on one record never ends the batch: every
\* record handed to the loop is processed and the call returns.
C5_BatchNeverAborted ==
  last.op \in {"export", "import"} /\ ~FetchRaised =>
    /\ ~last.raised
    /\ Len(last.batch) = last.size

\* C6 (as claimed): the fetch of export and import (getreminders) never
\* raises, whatever the executor returned.
C6_FetchNeverRaises ==
  last.op \in {"export", "import"} => ~FetchRaised

\* C7: an import that does not include completed reminders processes no
\* completed reminder and makes no task-store call for the id of one.
C7_CompletedNotImported ==
  last.op = "import" /\ last.arg = "" =>
    /\ \A k \in 1..Len(last.batch) : last.batch[k].reminder.completed # PyStr("true")
    /\ \A i \in 1..Len(reminderStore) :
         reminderStore[i]["completed"] = "true" /\ reminderStore[i]["id"] # "" =>
           \A c \in 1..Len(last.taskcalls) :
             last.taskcalls[c].fn = "tasklist" \/ last.taskcalls[c].rid # reminderStore[i]["id"]

\* C7 witness: the host listed a completed reminder with an id beside another
\* reminder, and the import without completed ones imported only the other.
C7_CompletedLeftOut ==
  /\ last.op = "import"
  /\ last.arg = ""
  /\ last.listing
  /\ ~last.raised
  /\ last.ret = 1
  /\ Len(reminderStore) = 2
  /\ \E i \in 1..Len(reminderStore) :
       reminderStore[i]["completed"] = "true" /\ reminderStore[i]["id"] # ""

\* the tasks the reverse map is built from that store this external id
Matches(rid) ==
  {i \in 1..Len(taskStore) : taskStore[i].rid = rid /\ taskStore[i].status # "deleted"}

Max(S) == CHOOSE x \in S : \A y \in S : y <= x

Min(S) == CHOOSE x \in S : \A y \in S : x <= y

C9_EveryStatusMapped ==
  last.op = "import" /\ last.tasksok =>
    \A k \in Entries(last.batch, "create") :
      Cardinality({i \in 1..Len(taskStore) : taskStore[i].rid = last.batch[k].reminder.id})
        = IF last.batch[k].ok THEN 1 ELSE 0

\* C10: an export step leaves the task store as it was and calls nothing of
\* the task store but the query; the id a create assigned is on the in-memory
\* task only.
C10_ExportLeavesTaskStore ==
  [][last'.op = "export" =>
       /\ taskStore' = taskStore
       /\ \A c \in 1..Len(last'.taskcalls) : last'.taskcalls[c].fn = "tasklist"
       /\ \A k \in 1..Len(last'.batch) :
            last'.batch[k].newid # "" =>
              /\ last'.batch[k].task.rid = last'.batch[k].newid
              /\ \A i \in 1..Len(taskStore') : taskStore'[i].rid # last'.batch[k].newid]_vars

\* C10 witness: an export created a reminder for a task, and the task in the
\* store still holds no external id.
C10_CreatedNotStored ==
  /\ last.op = "export"
  /\ \E k \in MakeEntries(last.batch) :
       /\ last.batch[k].newid # ""
       /\ last.batch[k].task.rid = last.batch[k].newid
       /\ StoredRid(last.batch[k].task.id) = ""

\* C11 (as claimed): N >= 1 records of P values each, printed in one stream
\* with dates as the token date and their literal, parse back into N records
\* holding the original values, a date as its whole literal.
C11_ParserRoundTrip ==
  LET P == Len(last.properties)
      F == Len(last.fields)
  IN last.op = "parsed" /\ F >= P /\ F % P = 0 =>
       /\ ~last.raised
       /\ Len(last.result) = F \div P
       /\ \A k \in 1..Len(last.result), j \in 1..P :
            last.result[k][last.properties[j]] = last.fields[(k - 1) * P + j].text

\* C12: with F scanned values and P properties the parser emits one record
\* when F = P and otherwise the F div P complete leading groups; record k
\* holds the values of group k under the properties in order, every record
\* has all P properties, and a trailing group of fewer than P values is left
\* out.
C12_RecordReconstruction ==
  LET P == Len(last.properties)
      F == Len(last.values)
  IN last.op = "parsed" =>
       /\ ~last.raised
       /\ F = P => Len(last.result) = 1
       /\ Len(last.result) = F \div P
       /\ \A k \in 1..Len(last.result) :
            /\ DOMAIN last.result[k] = Range(last.properties)
            /\ \A j \in 1..P :
                 last.result[k][last.properties[j]] = last.values[(k - 1) * P + j]

\* C12 witness: three values parsed with two properties gave one record.
C12_RemainderDiscarded ==
  /\ last.op = "parsed"
  /\ Len(last.values) = 3
  /\ Len(last.properties) = 2
  /\ Len(last.result) = 1

\* C13 (as claimed): the executor returns its failure value, and nothing
\* raises, whenever the process exits non-zero or prints anything on stderr.
C13_StderrIsFailure ==
  last.op \in {"read", "update", "delete"}
    /\ (last.returncode # 0 \/ last.stderr # "") =>
      last.result = ExNone

\* C14 (as claimed): on exit code 0 with empty trimmed stdout a read yields
\* no records and an update or delete returns true.
C14_EmptyOutputByKind ==
  last.op \in {"read", "update", "delete"}
    /\ last.returncode = 0 /\ strip(last.stdout) = "" =>
      /\ last.op = "read" => ~last.raised /\ last.reminders = <<>>
      /\ last.op \in {"update", "delete"} => last.result = ExTrue

\* C15: a build on a builder on which no verb was selected produces no
\* command, whatever else was set, and an execute that follows spawns no
\* process and returns None.
C15_NoVerbNoCommand ==
  last.op \in {"build", "execute"} /\ last.b.operation = "" =>
    /\ last.b.command = ""
    /\ last.op = "execute" => ~last.spawned /\ last.result = ExNone

\* C15 witness: a builder that was given a list, a name and an index but no
\* verb was built and executed.
C15_ExecutedWithoutVerb ==
  /\ last.op = "execute"
  /\ last.calls = 3
  /\ last.b.operation = ""
  /\ last.b.targetclause # ""
  /\ last.b.index # ""

\* C16 (as claimed): whatever the order of the calls, a built create command
\* has no 'of list' clause and a built read, update or delete command has no
\* 'at list' clause.
C16_ListClauseMatchesVerb ==
  last.op = "build" /\ last.b.command # "" =>
    IF last.b.operation = "make new reminder"
    THEN Find(last.b.command, " of list ", 1) = 0
    ELSE Find(last.b.command, " at list ", 1) = 0

\* the text the formatting table gives for a value
FormatTable(value) ==
  CASE value = PyNone -> "missing value"
    [] value = PyBool(TRUE) -> "true"
    [] value = PyBool(FALSE) -> "false"
    [] value = PyInt(5) -> "5"
    [] value.t = "date" -> "date \"" \o FromDatetime(value) \o "\""
    [] value = PyStr("April 22, 2024 at 6:00:00 PM") -> "date \"April 22, 2024 at 6:00:00 PM\""
    [] value = PyStr("a") -> "\"a\""
    [] value = PyStr("say \"hi\"") -> "\"say \\\"hi\\\"\""

\* text ends with tail
EndsWith(text, tail) ==
  /\ Len(text) >= Len(tail)
  /\ SubSeq(text, Len(text) - Len(tail) + 1, Len(text)) = tail

\* C18: a built update command ends with ' to ' and the value formatted by
\* the table (absent: missing value; boolean: true or false, never a number;
\* number: decimal text; structured date: date "<encoded literal>"; string in
\* the date grammar: date "<string>"; other string: quoted with every inner
\* double quote escaped), and a built create command lists its payload in the
\* same formats.
C18_FormatFollowsTable ==
  /\ last.op = "build" /\ last.b.operation = "set" =>
       EndsWith(last.b.command, " to " \o FormatTable(last.b.propertyvalue))
  /\ last.op = "build" /\ last.b.operation = "make new reminder"
       /\ Len(last.b.propertyclauses) = 3 =>
       EndsWith(last.b.command, " with properties {name:\"a\", priority:5, flagged:true}")

\* C18 witness: an update whose value is a boolean was built.
C18_BooleanBuilt ==
  /\ last.op = "build"
  /\ last.b.operation = "set"
  /\ last.b.propertyvalue = PyBool(TRUE)
  /\ last.b.command = "tell application \"Reminders\" to set name of reminder to true"

\* text starts with head
StartsWith(text, head) == Len(text) >= Len(head) /\ SubSeq(text, 1, Len(head)) = head

\* the locator of an update command on the reminder with this id, up to ' to '
IdLocator(property, id, listname) ==
  "tell application \"Reminders\" to set " \o property \o " of reminder id " \o id
  \o (IF listname # "" THEN "  of list \"" \o listname \o "\"" ELSE "") \o " to "

\* C17: an update on a reminder with an id issues one command per payload
\* property, each addressing the reminder by 'reminder id <id>' with no
\* verbal index and no name predicate in its locator; an update on a reminder
\* without id issues no command and returns false.
C17_UpdateAddressesById ==
  last.op = "updated" =>
    IF last.reminder.id = ""
    THEN last.commands = <<>> /\ ~last.success
    ELSE /\ Len(last.commands) = Len(osaproperties(last.reminder))
         /\ \A i \in 1..Len(last.commands) :
              /\ StartsWith(last.commands[i].text,
                            IdLocator(last.commands[i].property, last.reminder.id,
                                      last.listname))
              /\ Find(last.commands[i].text, "first reminder", 1) = 0
              /\ Find(last.commands[i].text, "whose name is", 1) = 0

\* C17 witness: a reminder with an id, in a list, whose name holds the words
\* of the locator, was updated with several commands.
C17_UpdatedById ==
  /\ last.op = "updated"
  /\ last.reminder.id = "r1"
  /\ last.reminder.name = "my first reminder"
  /\ last.listname = "L"
  /\ Len(last.commands) >= 2
  /\ last.commands[2].text
       = "tell application \"Reminders\" to set body of reminder id r1  of list \"L\" to \"b\""

\* the code each external priority decodes to
DecodeTable == <<"L", "L", "L", "M", "M", "M", "H", "H", "H">>

\* C19: decoding an external priority of 0..9 gives no priority for 0, L for
\* 1..3, M for 4..6 and H for 7..9.
C19_DecodeBuckets ==
  \A i \in 1..(Len(last.path) - 1) :
    last.path[i].t = "int" /\ last.path[i].n \in 0..9 =>
      last.path[i + 1] = PyStr(IF last.path[i].n = 0 THEN "" ELSE DecodeTable[last.path[i].n])

\* C19 witness: the reminder given had priority 6, the boundary of the
\* medium bucket, and was decoded.
C19_BoundaryDecoded ==
  /\ last.op = "task"
  /\ Len(last.path) = 2
  /\ last.path[1] = PyInt(6)
  /\ last.task.priority = "M"

\* C20: encoding sends H to 9, M to 5, L to 1 and no code or any other code
\* to 0; decoding the encoding of a domain code gives the code back; encoding
\* the decoding of an external priority gives one of 0, 1, 5, 9.
C20_EncodeThenDecode ==
  /\ \A i \in 1..(Len(last.path) - 1) :
       last.path[i].t = "str" =>
         last.path[i + 1] = PyInt(CASE last.path[i].s = "H" -> 9
                                    [] last.path[i].s = "M" -> 5
                                    [] last.path[i].s = "L" -> 1
                                    [] OTHER -> 0)
  /\ Len(last.path) = 3 /\ last.path[1].t = "str" /\ last.path[1].s \in {"H", "M", "L", ""} =>
       last.path[3] = last.path[1]
  /\ Len(last.path) = 3 /\ last.path[1].t = "int" =>
       last.path[3].t = "int" /\ last.path[3].n \in {0, 1, 5, 9}

\* C20 witness: a priority of 6 was decoded and encoded again and came back
\* as 5, not as itself.
C20_ReverseNotIdentity ==
  /\ last.op = "reminder"
  /\ last.path = <<PyInt(6), PyStr("M"), PyInt(5)>>

\* the number in the hour field of an encoded date, between ' at ' and ':'
HourField(text) ==
  LET at == Find(text, " at ", 1)
  IN ToInt(SubSeq(text, at + 4, Find(text, ":", at) - 1))

\* C21 (as claimed): the hour field of an encoded date is the 12-hour clock
\* value of the hour of the datetime, in 1..12, with the meridian that goes
\* with it (midnight is 12 AM, 18:00 is 6 PM).
C21_TwelveHourClock ==
  last.op = "encoded" /\ ~last.raised =>
    LET hour == last.dt.n \div 3600
    IN /\ HourField(last.text) \in 1..12
       /\ HourField(last.text) = (IF hour % 12 = 0 THEN 12 ELSE hour % 12)
       /\ EndsWith(last.text, IF hour < 12 THEN " AM" ELSE " PM")

\* C22 (as claimed): encoding a datetime does not raise and the encoded text
\* is recognised as a date literal.
C22_EncodedIsRecognised ==
  last.op = "encoded" => ~last.raised /\ last.recognised

\* C23: imports() runs the import exactly when the target can import and
\* the configuration (or, without one, the default) enables imports, and
\* otherwise returns 0 without running it; likewise exports(); a flag is never
\* set, and an automatic run never due, for a direction the target cannot do.
C23_SyncGating ==
  LET m == last.m
      enabledin == IF last.config.present THEN last.config.importsenabled ELSE TRUE
      enabledout == IF last.config.present THEN last.config.exportsenabled ELSE TRUE
  IN /\ last.op = "imports" => /\ last.ran <=> (m.canimport /\ enabledin)
                               /\ ~last.ran => last.ret = 0
     /\ last.op = "exports" => /\ last.ran <=> (m.canexport /\ enabledout)
                               /\ ~last.ran => last.ret = 0
     /\ (m.importsenabled \/ m.importsauto \/ shouldautoimport(m)) => m.canimport
     /\ (m.exportsenabled \/ m.exportsauto \/ shouldautoexport(m)) => m.canexport
     /\ shouldautoimport(m) => canimport(m)
     /\ shouldautoexport(m) => canexport(m)

\* C23 witness: imports() was called on a target that cannot import although
\* its configuration enables imports and automatic imports, and did not run.
C23_IncapableNotRun ==
  /\ last.op = "imports"
  /\ ~last.m.canimport
  /\ last.config.present /\ last.config.importsenabled /\ last.config.importsauto
  /\ ~last.ran /\ last.ret = 0

\* the characters of the field the scan is in: those consumed since the last
\* value was appended, without leading white space
FieldInProgress == lstrip(SubSeq(last.output, last.fieldstart, last.pos))

\* C24 (as claimed): while the scan is inside a field whose text begins with
\* the token date, the inside-date flag is true, so that no comma of the
\* literal ends the field; and the values the scan ends with hold every
\* character of the output except the separating commas and the white space
\* around them.
C24_FlagFollowsDateToken ==
  /\ last.op = "scanning" /\ StartsWith(FieldInProgress, "date ") => last.st.indate
  /\ last.op = "scanned" =>
       RemoveSpaces(Join(last.st.values, ",")) = RemoveSpaces(last.output)

\* C25 (as claimed): when the host listed the store and the import finished,
\* every row with an id that is not completed, and with completed reminders
\* included every row with an id, was created or updated.
C25_OnlyCompletedDropped ==
  last.op = "import" /\ last.listing /\ ~last.raised =>
    \A i \in 1..Len(reminderStore) :
      /\ reminderStore[i]["id"] # ""
      /\ last.arg = "completed" \/ reminderStore[i]["completed"] # "true"
      => \E k \in Entries(last.batch, "create") \cup Entries(last.batch, "update") :
           last.batch[k].reminder.id = reminderStore[i]["id"]

\* the tasks of the store that are not deleted
Extant(store) == {i \in 1..Len(store) : store[i].status # "deleted"}

\* C29: an import that follows an import with the same argument, nothing in
\* between and every call carried out in both, creates no task: every
\* reminder with an id takes the update path and the number of tasks that are
\* not deleted stays as it was.
C29_ImportIdempotent ==
  [][(/\ last.op = "import" /\ AllOk(last) /\ last.listing
      /\ last'.op = "import" /\ AllOk(last') /\ last'.listing
      /\ last'.arg = last.arg)
     => /\ last'.created = 0
        /\ Entries(last'.batch, "create") = {}
        /\ last'.updated = last.ret
        /\ Cardinality(Extant(taskStore')) = Cardinality(Extant(taskStore))]_vars

\* C29 witness: the only task of the store carries the id of the only
\* reminder, which an import gave it, and an import has just updated it and
\* created nothing.
C29_SecondRunUpdated ==
  /\ last.op = "import" /\ AllOk(last) /\ last.listing
  /\ last.created = 0 /\ last.updated = 1
  /\ Len(taskStore) = 1 /\ Len(reminderStore) = 1
  /\ taskStore[1].status = "pending"
  /\ taskStore[1].rid = reminderStore[1]["id"]
  /\ taskStore[1].rid # ""

\* C26: an update of a reminder with an id issues exactly one set command
\* per payload property, in payload order, whether or not earlier commands
\* failed; the host holds the value of every command it carried out and the
\* old value of every property whose command it refused; the result is true
\* exactly when every command succeeded.
C26_EveryPropertyIssued ==
  last.op = "updated" /\ last.reminder.id # "" =>
    LET properties == osaproperties(last.reminder)
        row == reminderStore[1]
    IN /\ Len(last.commands) = Len(properties)
       /\ \A i \in 1..Len(properties) :
            /\ last.commands[i].property = properties[i][1]
            /\ StartsWith(last.commands[i].text,
                          "tell application \"Reminders\" to set " \o properties[i][1] \o " of ")
            /\ row[properties[i][1]] = (IF last.outcome[i] THEN ValueText(last.commands[i].text)
                                        ELSE UpdateRows[1][properties[i][1]])
       /\ last.success <=> \A i \in 1..Len(properties) : last.outcome[i]

\* C26 witness: of three commands the host refused the second and carried
\* out the first and the third, and the update returned false.
C26_MiddleCommandFailed ==
  /\ last.op = "updated"
  /\ last.outcome = <<TRUE, FALSE, TRUE>>
  /\ Len(last.commands) = 3
  /\ last.commands[3].property = "priority"
  /\ reminderStore[1]["name"] = "\"a\""
  /\ reminderStore[1]["body"] = "missing value"
  /\ reminderStore[1]["priority"] = "5"
  /\ ~last.success

\* C30 (as claimed): the value in the command an update executes is the
\* formatted value of the payload, as in the command the builder produced,
\* and the property name is the payload's.
C30_RewriteKeepsValue ==
  last.op = "updated" /\ last.reminder.id # "" =>
    LET properties == osaproperties(last.reminder)
    IN \A i \in 1..Len(last.commands) :
         /\ last.commands[i].property = properties[i][1]
         /\ ValueText(last.commands[i].text) = formatvalue(properties[i][2])
         /\ ValueText(last.commands[i].text)
              = ValueText(updatecommandAsBuilt(last.reminder, last.listname,
                                               properties[i][1], properties[i][2]))

\* the row of the external store with this id
RowOf(id) == reminderStore[CHOOSE i \in 1..Len(reminderStore) : reminderStore[i]["id"] = id]

\* C27 (as claimed): after an export in which every command was carried out,
\* the reminder of each task on the update path has the name, body, priority
\* and flag mapped from the task: priority 0 for a task without priority,
\* unflagged for a task without the critical tag, no body for a task without
\* annotation.
C27_UpdateMirrorsTask ==
  last.op = "export" /\ AllOk(last) /\ last.listing =>
    \A k \in SetEntries(last.batch) :
      LET task == last.batch[k].task
          row == RowOf(task.rid)
      IN /\ row["name"] = task.description
         /\ (IF row["priority"] = "" THEN 0 ELSE ToInt(row["priority"]))
              = (CASE task.priority = "H" -> 9 [] task.priority = "M" -> 5
                   [] task.priority = "L" -> 1 [] OTHER -> 0)
         /\ row["flagged"] = "true" <=> "critical" \in Range(task.tags)
         /\ IF task.annotations # <<>> THEN row["body"] = task.annotations[1]
            ELSE row["body"] \in {"", "missing value"}

\* C28 (as claimed): after an import in which every call was carried out, the
\* task matched with a reminder that has a body carries exactly one
\* annotation, holding that body.
C28_OneAnnotationPerBody ==
  last.op = "import" /\ AllOk(last) /\ last.listing =>
    \A k \in Entries(last.batch, "create") \cup Entries(last.batch, "update") :
      LET reminder == last.batch[k].reminder IN
      reminder.body \notin {"", "missing value"} =>
        \A i \in 1..Len(taskStore) :
          taskStore[i].rid = reminder.id /\ taskStore[i].status = "pending" =>
            taskStore[i].annotations = <<reminder.body>>

====
